---- MODULE Spec2Model ----
(***************************************************************************)
(* Model of drivers/md/dm-sysfs.c: the sysfs attribute dispatcher of a     *)
(* mapped device (dm_attr_show / dm_attr_store), the attribute table       *)
(* dm_attrs, and the show/store callbacks, among them the three latency    *)
(* histogram readers and the histogram reset.                              *)
(*                                                                         *)
(* Strings the callbacks produce are sequences of one-character strings,   *)
(* so that formatting (sprintf, strcat, strlen) is computed and not        *)
(* assumed.  Every access to shared memory of one dispatch call is one     *)
(* step: the histogram readers take one step per bucket (atomic_read),     *)
(* the reset one step per bucket (atomic_set).                             *)
(***************************************************************************)
EXTENDS Integers, Sequences, FiniteSets, TLC

(* ------------------------------ bounds -------------------------------- *)

NumMD == 2

NumThreads == 2

MaxCalls == 2

MaxIncs == 2

MDs == 1..NumMD

Threads == 1..NumThreads

(* ----------------------- constants of the program --------------------- *)

NULL == "NULL"

NoMd == 0

EIO == 5

EINVAL == 22

ENOENT == 2

DM_LATENCY_STATS_US_NR == 3

DM_LATENCY_STATS_US_GRAINSIZE == 100

DM_LATENCY_STATS_MS_NR == 2

DM_LATENCY_STATS_MS_GRAINSIZE == 10

DM_LATENCY_STATS_S_NR == 1

DM_LATENCY_STATS_S_GRAINSIZE == 5

S_IRUGO == {"r"}

S_IWUSR == {"w"}

(* -------------------------- the attribute table ----------------------- *)

\* DM_ATTR_RO with the store callback of the reset pasted in.
DM_ATTR_RO_pasted(_name) ==
    [name |-> _name, mode |-> S_IRUGO,
     show |-> "dm_attr_" \o _name \o "_show",
     store |-> "dm_attr_io_latency_reset_store"]

DM_ATTR_RO(_name) ==
    [name |-> _name, mode |-> S_IRUGO,
     show |-> "dm_attr_" \o _name \o "_show", store |-> NULL]

DM_ATTR_RW(_name) ==
    [name |-> _name, mode |-> S_IRUGO \cup S_IWUSR,
     show |-> NULL, store |-> "dm_attr_" \o _name \o "_store"]

\* The table with one more entry, served by the callback of the name.
dm_attrs_extra ==
    << DM_ATTR_RO("name"),
       DM_ATTR_RO("uuid"),
       DM_ATTR_RO("suspended"),
       DM_ATTR_RO("io_latency_us"),
       DM_ATTR_RO("io_latency_ms"),
       DM_ATTR_RO("io_latency_s"),
       DM_ATTR_RW("io_latency_reset"),
       [name |-> "bogus", mode |-> S_IRUGO, show |-> "dm_attr_name_show",
        store |-> NULL] >>

dm_attrs ==
    << DM_ATTR_RO("name"),
       DM_ATTR_RO("uuid"),
       DM_ATTR_RO("suspended"),
       DM_ATTR_RO("io_latency_us"),
       DM_ATTR_RO("io_latency_ms"),
       DM_ATTR_RO("io_latency_s"),
       DM_ATTR_RW("io_latency_reset") >>

\* The names a caller may ask for: those of the table and one that is absent.
RequestNames ==
    {"name", "uuid", "suspended", "io_latency_us", "io_latency_ms",
     "io_latency_s", "io_latency_reset", "bogus"}

HistNames == {"io_latency_us", "io_latency_ms", "io_latency_s"}

\* The payloads a caller may write.
Payloads == { <<>>, <<"1", "\n">> }

(* ------------------------------ strings ------------------------------- *)

DigitChar == <<"0", "1", "2", "3", "4", "5", "6", "7", "8", "9">>

RECURSIVE Digits(_)
Digits(n) ==
    IF n < 10 THEN <<DigitChar[n + 1]>>
    ELSE Digits(n \div 10) \o <<DigitChar[(n % 10) + 1]>>

\* The conversion %d.
FmtD(n) == IF n < 0 THEN <<"-">> \o Digits(-n) ELSE Digits(n)

\* sprintf(buf + ptr, ...): the characters before ptr stay, the formatted
\* text and its terminating NUL follow.
WriteAt(buf, ptr, text) == SubSeq(buf, 1, ptr) \o text

strlen(buf) == Len(buf)

strcat(buf, text) == buf \o text

\* "%d-%d(<unit>):%d\n"
LatencyLine(unit, lo, hi, count) ==
    FmtD(lo) \o <<"-">> \o FmtD(hi) \o <<"(">> \o unit \o <<")", ":">>
        \o FmtD(count) \o <<"\n">>

\* "%d\n"
SuspendedLine(v) == FmtD(v) \o <<"\n">>

(* ------------------------------- state -------------------------------- *)

HistCallbacks ==
    {"dm_attr_io_latency_us_show", "dm_attr_io_latency_ms_show",
     "dm_attr_io_latency_s_show", "dm_attr_io_latency_reset_store"}

VARIABLES
    dev,     \* the mapped devices: lifecycle, holders, suspended, histograms
    th,      \* per caller: the position and the locals of its dispatch call
    gh,      \* per caller: what its current call has done and has met
    clean,   \* per device: a reset has completed and no increment followed
    calls,   \* dispatch calls started
    incs     \* external increments applied

vars == <<dev, th, gh, clean, calls, incs>>

ZeroHist(n) == [i \in 0..(n - 1) |-> 0]

NewDevice ==
    [state |-> "live", holders |-> 0, suspended |-> FALSE,
     name |-> <<>>, uuid |-> <<>>,
     latency_stats_us |-> ZeroHist(DM_LATENCY_STATS_US_NR),
     latency_stats_ms |-> ZeroHist(DM_LATENCY_STATS_MS_NR),
     latency_stats_s |-> ZeroHist(DM_LATENCY_STATS_S_NR)]

IdleThread ==
    [pc |-> "idle", op |-> "none", kobj |-> NoMd, name |-> "", attr |-> 0,
     md |-> NoMd, page |-> <<>>, len |-> 0, loop |-> 0, i |-> 0, ptr |-> 0,
     slot_base |-> 0, ret |-> 0]

Hist(d) ==
    [latency_stats_us |-> d.latency_stats_us,
     latency_stats_ms |-> d.latency_stats_ms,
     latency_stats_s |-> d.latency_stats_s]

NoGhost ==
    [nget |-> 0, nput |-> 0, ncb |-> 0, resolve |-> "none",
     snap |-> <<>>, startClean |-> FALSE, incd |-> FALSE, resetd |-> FALSE,
     since |-> <<>>, lifed |-> FALSE]

\* No bucket has been zeroed by the call yet.
NotZeroed ==
    [latency_stats_us |-> [i \in 0..(DM_LATENCY_STATS_US_NR - 1) |-> -1],
     latency_stats_ms |-> [i \in 0..(DM_LATENCY_STATS_MS_NR - 1) |-> -1],
     latency_stats_s |-> [i \in 0..(DM_LATENCY_STATS_S_NR - 1) |-> -1]]

\* What a call that is about to run callback cb on device kobj starts from.
NewGhost(kobj, cb) ==
    IF cb \in HistCallbacks
    THEN [NoGhost EXCEPT !.snap = Hist(dev[kobj]),
                         !.startClean = clean[kobj],
                         !.since = IF cb = "dm_attr_io_latency_reset_store"
                                   THEN NotZeroed ELSE <<>>]
    ELSE NoGhost

\* A device that has carried I/O before the first call.
LoadedDevice ==
    [NewDevice EXCEPT
       !.latency_stats_us = [i \in 0..(DM_LATENCY_STATS_US_NR - 1) |-> i + 1],
       !.latency_stats_ms = [i \in 0..(DM_LATENCY_STATS_MS_NR - 1) |-> i + 4],
       !.latency_stats_s = [i \in 0..(DM_LATENCY_STATS_S_NR - 1) |-> i + 6]]

\* The device as created under its name; every second one has no uuid.
Named(d, md) ==
    [d EXCEPT !.name = <<"d", "m">> \o Digits(md),
              !.uuid = IF md % 2 = 1 THEN <<"U">> \o Digits(md) ELSE <<>>]

InitWith(devices) ==
    /\ dev \in {[m \in MDs |-> Named(d, m)] : d \in devices}
    /\ th = [t \in Threads |-> IdleThread]
    /\ gh = [t \in Threads |-> NoGhost]
    /\ clean = [m \in MDs |-> FALSE]
    /\ calls = 0
    /\ incs = 0

\* The devices after construction.
InitFresh == InitWith({NewDevice})

\* The devices after construction or after some I/O.
Init == InitWith({NewDevice, LoadedDevice})

(* -------------------- collaborators (dm.c, dm-ioctl.c) ---------------- *)

\* NULL once the device is being freed or is gone, else the device.
dm_get_from_kobject(kobj) ==
    IF dev[kobj].state \in {"freeing", "freed"} THEN NoMd ELSE kobj

dm_get(d, md) == [d EXCEPT ![md].holders = @ + 1]

dm_put(d, md) == [d EXCEPT ![md].holders = @ - 1]

\* Fails once the device has left the name hash.
dm_copy_name_and_uuid_fails(md) == dev[md].state # "live"

MdName(md) == dev[md].name

MdUuid(md) == dev[md].uuid

dm_suspended_md(md) == IF dev[md].suspended THEN 1 ELSE 0

(* ---------------------------- the dispatcher -------------------------- *)

InCall(t) == th[t].pc \in {"callback", "put"}

\* Callers whose current or last call ran a histogram callback on device md.
HistCallers(md) == {s \in Threads : gh[s].snap # <<>> /\ th[s].kobj = md}

\* Callers are interchangeable: caller t + 1 starts after caller t has.
CanCall(t) ==
    /\ th[t].pc \in {"idle", "done"}
    /\ calls < MaxCalls
    /\ IF t = 1 THEN TRUE ELSE th[t - 1].pc # "idle"

Entered(op, kobj, name, a, page) ==
    [IdleThread EXCEPT !.op = op, !.kobj = kobj, !.name = name, !.attr = a,
                       !.page = page, !.len = Len(page)]

\* After the return the locals are gone; the request, the result and, for a
\* read, the page stay for the caller.
Return(frame, ret) ==
    [frame EXCEPT !.pc = "done", !.ret = ret, !.md = NoMd,
                  !.page = IF frame.op = "store" THEN <<>> ELSE @]

\* dm_attr_show answering a failed resolution with -EIO.
dm_attr_show_eio(t, kobj, a) ==
    LET frame == Entered("show", kobj, dm_attrs[a].name, a, <<>>) IN
    IF dm_attrs[a].show = NULL
    THEN /\ th' = [th EXCEPT ![t] = Return(frame, -EIO)]
         /\ gh' = [gh EXCEPT ![t] = NoGhost]
         /\ dev' = dev
    ELSE LET md == dm_get_from_kobject(kobj) IN
         IF md = NoMd
         THEN /\ th' = [th EXCEPT ![t] = Return(frame, -EIO)]
              /\ gh' = [gh EXCEPT ![t] =
                          [NoGhost EXCEPT !.resolve = "failed"]]
              /\ dev' = dev
         ELSE /\ th' = [th EXCEPT ![t] =
                          [frame EXCEPT !.pc = "callback", !.md = md]]
              /\ gh' = [gh EXCEPT ![t] =
                          [NewGhost(kobj, dm_attrs[a].show)
                             EXCEPT !.resolve = "ok", !.nget = 1]]
              /\ dev' = dm_get(dev, md)

\* dm_attr_show taking the device from the kobject without a reference.
dm_attr_show_noref(t, kobj, a) ==
    LET frame == Entered("show", kobj, dm_attrs[a].name, a, <<>>) IN
    IF dm_attrs[a].show = NULL
    THEN /\ th' = [th EXCEPT ![t] = Return(frame, -EIO)]
         /\ gh' = [gh EXCEPT ![t] = NoGhost]
         /\ dev' = dev
    ELSE LET md == dm_get_from_kobject(kobj) IN
         IF md = NoMd
         THEN /\ th' = [th EXCEPT ![t] = Return(frame, -EINVAL)]
              /\ gh' = [gh EXCEPT ![t] =
                          [NoGhost EXCEPT !.resolve = "failed"]]
              /\ dev' = dev
         ELSE /\ th' = [th EXCEPT ![t] =
                          [frame EXCEPT !.pc = "callback", !.md = md]]
              /\ gh' = [gh EXCEPT ![t] =
                          [NewGhost(kobj, dm_attrs[a].show)
                             EXCEPT !.resolve = "ok", !.nget = 1]]
              /\ dev' = dev

\* dm_attr_show up to the call of the show callback.
dm_attr_show(t, kobj, a) ==
    LET frame == Entered("show", kobj, dm_attrs[a].name, a, <<>>) IN
    IF dm_attrs[a].show = NULL
    THEN /\ th' = [th EXCEPT ![t] = Return(frame, -EIO)]
         /\ gh' = [gh EXCEPT ![t] = NoGhost]
         /\ dev' = dev
    ELSE LET md == dm_get_from_kobject(kobj) IN
         IF md = NoMd
         THEN /\ th' = [th EXCEPT ![t] = Return(frame, -EINVAL)]
              /\ gh' = [gh EXCEPT ![t] =
                          [NoGhost EXCEPT !.resolve = "failed"]]
              /\ dev' = dev
         ELSE /\ th' = [th EXCEPT ![t] =
                          [frame EXCEPT !.pc = "callback", !.md = md]]
              /\ gh' = [gh EXCEPT ![t] =
                          [NewGhost(kobj, dm_attrs[a].show)
                             EXCEPT !.resolve = "ok", !.nget = 1]]
              /\ dev' = dm_get(dev, md)

\* dm_attr_store resolving the device before it looks at the callback.
dm_attr_store_resolves_first(t, kobj, a, page) ==
    LET frame == Entered("store", kobj, dm_attrs[a].name, a, page)
        md    == dm_get_from_kobject(kobj)
    IN
    IF md = NoMd
    THEN /\ th' = [th EXCEPT ![t] = Return(frame, -EINVAL)]
         /\ gh' = [gh EXCEPT ![t] = [NoGhost EXCEPT !.resolve = "failed"]]
         /\ dev' = dev
    ELSE IF dm_attrs[a].store = NULL
         THEN /\ th' = [th EXCEPT ![t] = Return(frame, -EIO)]
              /\ gh' = [gh EXCEPT ![t] =
                          [NoGhost EXCEPT !.resolve = "ok", !.nget = 1,
                                          !.nput = 1]]
              /\ dev' = dev
         ELSE /\ th' = [th EXCEPT ![t] =
                          [frame EXCEPT !.pc = "callback", !.md = md,
                                        !.loop = 1]]
              /\ gh' = [gh EXCEPT ![t] =
                          [NewGhost(kobj, dm_attrs[a].store)
                             EXCEPT !.resolve = "ok", !.nget = 1]]
              /\ dev' = dm_get(dev, md)

\* dm_attr_store up to the call of the store callback.
dm_attr_store(t, kobj, a, page) ==
    LET frame == Entered("store", kobj, dm_attrs[a].name, a, page) IN
    IF dm_attrs[a].store = NULL
    THEN /\ th' = [th EXCEPT ![t] = Return(frame, -EIO)]
         /\ gh' = [gh EXCEPT ![t] = NoGhost]
         /\ dev' = dev
    ELSE LET md == dm_get_from_kobject(kobj) IN
         IF md = NoMd
         THEN /\ th' = [th EXCEPT ![t] = Return(frame, -EINVAL)]
              /\ gh' = [gh EXCEPT ![t] =
                          [NoGhost EXCEPT !.resolve = "failed"]]
              /\ dev' = dev
         ELSE /\ th' = [th EXCEPT ![t] =
                          [frame EXCEPT !.pc = "callback", !.md = md,
                                        !.loop = 1]]
              /\ gh' = [gh EXCEPT ![t] =
                          [NewGhost(kobj, dm_attrs[a].store)
                             EXCEPT !.resolve = "ok", !.nget = 1]]
              /\ dev' = dm_get(dev, md)

\* dm_attr_show returning early, without dm_put, when the callback failed.
dm_attr_show_put_leak(t) ==
    /\ th[t].pc = "put"
    /\ th[t].op = "show"
    /\ IF th[t].ret < 0
       THEN dev' = dev /\ gh' = gh
       ELSE /\ dev' = dm_put(dev, th[t].md)
            /\ gh' = [gh EXCEPT ![t].nput = @ + 1]
    /\ th' = [th EXCEPT ![t] = Return(th[t], th[t].ret)]
    /\ UNCHANGED <<clean, calls, incs>>

\* dm_attr_show reporting an empty reply when the callback failed.
dm_attr_show_put_masks(t) ==
    /\ th[t].pc = "put"
    /\ th[t].op = "show"
    /\ dev' = dm_put(dev, th[t].md)
    /\ th' = [th EXCEPT ![t] =
                Return(th[t], IF th[t].ret < 0 THEN 0 ELSE th[t].ret)]
    /\ gh' = [gh EXCEPT ![t].nput = @ + 1]
    /\ UNCHANGED <<clean, calls, incs>>

\* dm_attr_show from the return of the callback: dm_put(md); return ret.
dm_attr_show_put(t) ==
    /\ th[t].pc = "put"
    /\ th[t].op = "show"
    /\ dev' = dm_put(dev, th[t].md)
    /\ th' = [th EXCEPT ![t] = Return(th[t], th[t].ret)]
    /\ gh' = [gh EXCEPT ![t].nput = @ + 1]
    /\ UNCHANGED <<clean, calls, incs>>

\* dm_attr_store releasing its reference only once it is the last holder.
dm_attr_store_put_waits(t) ==
    /\ th[t].pc = "put"
    /\ th[t].op = "store"
    /\ dev[th[t].md].holders = 1
    /\ dev' = dm_put(dev, th[t].md)
    /\ th' = [th EXCEPT ![t] = Return(th[t], th[t].ret)]
    /\ gh' = [gh EXCEPT ![t].nput = @ + 1]
    /\ UNCHANGED <<clean, calls, incs>>

\* dm_attr_store from the return of the callback: dm_put(md); return ret.
dm_attr_store_put(t) ==
    /\ th[t].pc = "put"
    /\ th[t].op = "store"
    /\ dev' = dm_put(dev, th[t].md)
    /\ th' = [th EXCEPT ![t] = Return(th[t], th[t].ret)]
    /\ gh' = [gh EXCEPT ![t].nput = @ + 1]
    /\ UNCHANGED <<clean, calls, incs>>

(* ------------------- the transport (fs/sysfs): lookup ----------------- *)

\* The place of the name in the table, 0 when the table has no such name.
Lookup(name) ==
    IF \E a \in 1..Len(dm_attrs) : dm_attrs[a].name = name
    THEN CHOOSE a \in 1..Len(dm_attrs) : dm_attrs[a].name = name
    ELSE 0

SysfsRead(t, kobj, name) ==
    /\ CanCall(t)
    /\ calls' = calls + 1
    /\ IF Lookup(name) = 0
       THEN /\ th' = [th EXCEPT ![t] =
                        Return(Entered("show", kobj, name, 0, <<>>), -ENOENT)]
            /\ gh' = [gh EXCEPT ![t] = NoGhost]
            /\ dev' = dev
       ELSE dm_attr_show(t, kobj, Lookup(name))
    /\ UNCHANGED <<clean, incs>>

SysfsWrite(t, kobj, name, page) ==
    /\ CanCall(t)
    /\ calls' = calls + 1
    /\ IF Lookup(name) = 0
       THEN /\ th' = [th EXCEPT ![t] =
                        Return(Entered("store", kobj, name, 0, page), -ENOENT)]
            /\ gh' = [gh EXCEPT ![t] = NoGhost]
            /\ dev' = dev
       ELSE dm_attr_store(t, kobj, Lookup(name), page)
    /\ UNCHANGED <<clean, incs>>

(* ----------------------------- the callbacks -------------------------- *)

InShow(t, cb) ==
    /\ th[t].pc = "callback"
    /\ th[t].op = "show"
    /\ dm_attrs[th[t].attr].show = cb

InStore(t, cb) ==
    /\ th[t].pc = "callback"
    /\ th[t].op = "store"
    /\ dm_attrs[th[t].attr].store = cb

\* dm_attr_name_show clearing the name of the device when the copy failed.
dm_attr_name_show_clears(t) ==
    /\ InShow(t, "dm_attr_name_show")
    /\ IF dm_copy_name_and_uuid_fails(th[t].md)
       THEN /\ th' = [th EXCEPT ![t].pc = "put", ![t].ret = -EIO]
            /\ dev' = [dev EXCEPT ![th[t].md].name = <<>>]
       ELSE LET buf == strcat(MdName(th[t].md), <<"\n">>) IN
            /\ th' = [th EXCEPT ![t].pc = "put", ![t].page = buf,
                                ![t].ret = strlen(buf)]
            /\ dev' = dev
    /\ gh' = [gh EXCEPT ![t].ncb = 1]
    /\ UNCHANGED <<clean, calls, incs>>

dm_attr_name_show(t) ==
    /\ InShow(t, "dm_attr_name_show")
    /\ IF dm_copy_name_and_uuid_fails(th[t].md)
       THEN th' = [th EXCEPT ![t].pc = "put", ![t].ret = -EIO]
       ELSE LET buf == strcat(MdName(th[t].md), <<"\n">>) IN
            th' = [th EXCEPT ![t].pc = "put", ![t].page = buf,
                             ![t].ret = strlen(buf)]
    /\ gh' = [gh EXCEPT ![t].ncb = 1]
    /\ UNCHANGED <<dev, clean, calls, incs>>

dm_attr_uuid_show(t) ==
    /\ InShow(t, "dm_attr_uuid_show")
    /\ IF dm_copy_name_and_uuid_fails(th[t].md)
       THEN th' = [th EXCEPT ![t].pc = "put", ![t].ret = -EIO]
       ELSE LET buf == strcat(MdUuid(th[t].md), <<"\n">>) IN
            th' = [th EXCEPT ![t].pc = "put", ![t].page = buf,
                             ![t].ret = strlen(buf)]
    /\ gh' = [gh EXCEPT ![t].ncb = 1]
    /\ UNCHANGED <<dev, clean, calls, incs>>

\* dm_attr_suspended_show resuming the device it reports on.
dm_attr_suspended_show_resumes(t) ==
    /\ InShow(t, "dm_attr_suspended_show")
    /\ LET buf == WriteAt(th[t].page, 0,
                          SuspendedLine(dm_suspended_md(th[t].md))) IN
       th' = [th EXCEPT ![t].pc = "put", ![t].page = buf,
                        ![t].ret = strlen(buf)]
    /\ dev' = [dev EXCEPT ![th[t].md].suspended = FALSE]
    /\ gh' = [gh EXCEPT ![t].ncb = 1]
    /\ UNCHANGED <<clean, calls, incs>>

dm_attr_suspended_show(t) ==
    /\ InShow(t, "dm_attr_suspended_show")
    /\ LET buf == WriteAt(th[t].page, 0,
                          SuspendedLine(dm_suspended_md(th[t].md))) IN
       th' = [th EXCEPT ![t].pc = "put", ![t].page = buf,
                        ![t].ret = strlen(buf)]
    /\ gh' = [gh EXCEPT ![t].ncb = 1]
    /\ UNCHANGED <<dev, clean, calls, incs>>

\* slot_base += GRAINSIZE, and the same with the addition forgotten.
NextSlotBase_stuck(slot_base, GRAINSIZE) == GRAINSIZE

NextSlotBase(slot_base, GRAINSIZE) == slot_base + GRAINSIZE

\* ptr += nr
NextPtr(ptr, nr) == ptr + nr

\* One pass of the loop of a latency reader: the sprintf of bucket i
\* succeeds (nr >= 0).  The pass that ends the loop returns strlen(buf).
LatencyShowPass(t, stats, unit, NR, GRAINSIZE) ==
    /\ th[t].i < NR
    /\ LET f    == th[t]
           line == LatencyLine(unit, f.slot_base,
                               f.slot_base + GRAINSIZE - 1,
                               dev[f.md][stats][f.i])
           buf  == WriteAt(f.page, f.ptr, line)
           nr   == Len(line)
       IN  th' = [th EXCEPT ![t] =
                    [f EXCEPT !.page = buf,
                              !.slot_base = NextSlotBase(f.slot_base, GRAINSIZE),
                              !.ptr = NextPtr(f.ptr, nr),
                              !.i = f.i + 1,
                              !.pc = IF f.i + 1 < NR THEN "callback" ELSE "put",
                              !.ret = IF f.i + 1 < NR THEN 0 ELSE strlen(buf)]]
    /\ gh' = [gh EXCEPT ![t].ncb = 1]
    /\ UNCHANGED <<dev, clean, calls, incs>>

\* What a failed sprintf may leave of the line in the buffer: nothing, or
\* all of it but its end.
FailLeaves(line) == {0, Len(line) - 1}

\* One pass in which the sprintf of bucket i fails (nr < 0): it leaves k
\* characters of the line behind; the loop breaks and strlen(buf) returns.
LatencyShowBreak(t, stats, unit, NR, GRAINSIZE) ==
    /\ th[t].i < NR
    /\ LET f    == th[t]
           line == LatencyLine(unit, f.slot_base,
                               f.slot_base + GRAINSIZE - 1,
                               dev[f.md][stats][f.i])
       IN  \E k \in FailLeaves(line) :
             LET buf == WriteAt(f.page, f.ptr, SubSeq(line, 1, k)) IN
             th' = [th EXCEPT ![t] =
                      [f EXCEPT !.page = buf, !.pc = "put",
                                !.ret = strlen(buf)]]
    /\ gh' = [gh EXCEPT ![t].ncb = 1]
    /\ UNCHANGED <<dev, clean, calls, incs>>

dm_attr_io_latency_us_show(t) ==
    /\ InShow(t, "dm_attr_io_latency_us_show")
    /\ LatencyShowPass(t, "latency_stats_us", <<"u", "s">>,
                       DM_LATENCY_STATS_US_NR, DM_LATENCY_STATS_US_GRAINSIZE)

\* The reader of the ms scale left reading the array of the us scale.
dm_attr_io_latency_ms_show_us(t) ==
    /\ InShow(t, "dm_attr_io_latency_ms_show")
    /\ LatencyShowPass(t, "latency_stats_us", <<"m", "s">>,
                       DM_LATENCY_STATS_MS_NR, DM_LATENCY_STATS_MS_GRAINSIZE)

dm_attr_io_latency_ms_show(t) ==
    /\ InShow(t, "dm_attr_io_latency_ms_show")
    /\ LatencyShowPass(t, "latency_stats_ms", <<"m", "s">>,
                       DM_LATENCY_STATS_MS_NR, DM_LATENCY_STATS_MS_GRAINSIZE)

dm_attr_io_latency_s_show(t) ==
    /\ InShow(t, "dm_attr_io_latency_s_show")
    /\ LatencyShowPass(t, "latency_stats_s", <<"s">>,
                       DM_LATENCY_STATS_S_NR, DM_LATENCY_STATS_S_GRAINSIZE)

dm_attr_io_latency_us_show_break(t) ==
    /\ InShow(t, "dm_attr_io_latency_us_show")
    /\ LatencyShowBreak(t, "latency_stats_us", <<"u", "s">>,
                        DM_LATENCY_STATS_US_NR, DM_LATENCY_STATS_US_GRAINSIZE)

dm_attr_io_latency_ms_show_break(t) ==
    /\ InShow(t, "dm_attr_io_latency_ms_show")
    /\ LatencyShowBreak(t, "latency_stats_ms", <<"m", "s">>,
                        DM_LATENCY_STATS_MS_NR, DM_LATENCY_STATS_MS_GRAINSIZE)

dm_attr_io_latency_s_show_break(t) ==
    /\ InShow(t, "dm_attr_io_latency_s_show")
    /\ LatencyShowBreak(t, "latency_stats_s", <<"s">>,
                        DM_LATENCY_STATS_S_NR, DM_LATENCY_STATS_S_GRAINSIZE)

\* The arrays of the three loops with the third clearing the ms scale again.
ResetStats_ms_twice(loop) ==
    CASE loop = 1 -> "latency_stats_us"
      [] loop = 2 -> "latency_stats_ms"
      [] loop = 3 -> "latency_stats_ms"

\* The array and the length of the loop-th loop of the reset.
ResetStats(loop) ==
    CASE loop = 1 -> "latency_stats_us"
      [] loop = 2 -> "latency_stats_ms"
      [] loop = 3 -> "latency_stats_s"

ResetNR(loop) ==
    CASE loop = 1 -> DM_LATENCY_STATS_US_NR
      [] loop = 2 -> DM_LATENCY_STATS_MS_NR
      [] loop = 3 -> DM_LATENCY_STATS_S_NR

atomic_set(d, md, stats, i, v) == [d EXCEPT ![md][stats][i] = v]

\* The bucket counted down instead of set.
ResetBucket_dec(d, md, stats, i) == [d EXCEPT ![md][stats][i] = @ - 1]

\* The array cleared from its start up to bucket i, in one go.
ResetBucket_through(d, md, stats, i) ==
    [d EXCEPT ![md][stats] = [j \in DOMAIN @ |-> IF j <= i THEN 0 ELSE @[j]]]

\* The bucket cleared in the histograms of every device.
ResetBucket_all(d, md, stats, i) ==
    [m \in DOMAIN d |-> [d[m] EXCEPT ![stats][i] = 0]]

\* The bucket set to one.
ResetBucket_one(d, md, stats, i) == atomic_set(d, md, stats, i, 1)

\* atomic_set(&md->latency_stats_xx[i], 0)
ResetBucket(d, md, stats, i) == atomic_set(d, md, stats, i, 0)

\* return len, and a reset that reports nothing consumed.
ResetReturn_none(len) == 0

ResetReturn(len) == len

\* One atomic_set of the reset; the last one returns len.
dm_attr_io_latency_reset_store(t) ==
    /\ InStore(t, "dm_attr_io_latency_reset_store")
    /\ LET f    == th[t]
           last == f.i + 1 >= ResetNR(f.loop)
           end  == last /\ f.loop = 3
       IN  /\ dev' = ResetBucket(dev, f.md, ResetStats(f.loop), f.i)
           /\ th' = [th EXCEPT ![t] =
                       [f EXCEPT !.i = IF last THEN 0 ELSE f.i + 1,
                                 !.loop = IF last THEN f.loop + 1 ELSE f.loop,
                                 !.pc = IF end THEN "put" ELSE "callback",
                                 !.ret = IF end THEN ResetReturn(f.len) ELSE 0]]
           /\ gh' = [s \in Threads |->
                       IF s = t
                       THEN [gh[s] EXCEPT
                               !.ncb = 1,
                               !.since[ResetStats(f.loop)][f.i] = 0]
                       ELSE IF s \in HistCallers(f.md)
                            THEN [gh[s] EXCEPT !.resetd = TRUE]
                            ELSE gh[s]]
           /\ clean' = IF end /\ ~gh[t].incd
                       THEN [clean EXCEPT ![f.md] = TRUE]
                       ELSE clean
    /\ UNCHANGED <<calls, incs>>

(* ------------------- the environment of the dispatcher ---------------- *)

StatsNR(stats) ==
    CASE stats = "latency_stats_us" -> DM_LATENCY_STATS_US_NR
      [] stats = "latency_stats_ms" -> DM_LATENCY_STATS_MS_NR
      [] stats = "latency_stats_s" -> DM_LATENCY_STATS_S_NR

StatsNames == {"latency_stats_us", "latency_stats_ms", "latency_stats_s"}

\* The environment is followed only while a dispatch call can still meet it.
Observed == calls < MaxCalls \/ \E t \in Threads : th[t].pc \in {"callback", "put"}

\* The I/O path counts a completed request: atomic_inc of one bucket.
LatencyInc(md, stats, i) ==
    /\ Observed
    /\ incs < MaxIncs
    /\ dev[md].state # "freed"
    /\ incs' = incs + 1
    /\ dev' = [dev EXCEPT ![md][stats][i] = @ + 1]
    /\ gh' = [s \in Threads |->
                IF s \in HistCallers(md)
                THEN [gh[s] EXCEPT
                        !.incd = TRUE,
                        !.since = IF @ = <<>> \/ @[stats][i] < 0 THEN @
                                  ELSE [@ EXCEPT ![stats][i] = @ + 1]]
                ELSE gh[s]]
    /\ clean' = [clean EXCEPT ![md] = FALSE]
    /\ UNCHANGED <<th, calls>>

\* The calls that have resolved device md meet a change of its life.
LifeSeen(md) ==
    [s \in Threads |->
       IF th[s].kobj = md /\ gh[s].resolve = "ok"
       THEN [gh[s] EXCEPT !.lifed = TRUE]
       ELSE gh[s]]

Suspend(md) ==
    /\ Observed
    /\ dev[md].state = "live"
    /\ ~dev[md].suspended
    /\ dev' = [dev EXCEPT ![md].suspended = TRUE]
    /\ gh' = LifeSeen(md)
    /\ UNCHANGED <<th, clean, calls, incs>>

Resume(md) ==
    /\ Observed
    /\ dev[md].state = "live"
    /\ dev[md].suspended
    /\ dev' = [dev EXCEPT ![md].suspended = FALSE]
    /\ gh' = LifeSeen(md)
    /\ UNCHANGED <<th, clean, calls, incs>>

\* The device leaves the name hash: its name and uuid can no longer be read.
HashRemove(md) ==
    /\ Observed
    /\ dev[md].state = "live"
    /\ dev' = [dev EXCEPT ![md].state = "unhashed"]
    /\ gh' = LifeSeen(md)
    /\ UNCHANGED <<th, clean, calls, incs>>

\* Destruction starts: no new reference is handed out.
DestroyBegin(md) ==
    /\ Observed
    /\ dev[md].state = "unhashed"
    /\ dev' = [dev EXCEPT ![md].state = "freeing"]
    /\ gh' = LifeSeen(md)
    /\ UNCHANGED <<th, clean, calls, incs>>

\* Destruction ends once the holders have drained (dm_sysfs_exit, free).
DestroyEnd(md) ==
    /\ Observed
    /\ dev[md].state = "freeing"
    /\ dev[md].holders = 0
    /\ dev' = [dev EXCEPT ![md].state = "freed"]
    /\ gh' = LifeSeen(md)
    /\ UNCHANGED <<th, clean, calls, incs>>

(* --------------------------- specifications --------------------------- *)

\* The dispatch calls on the devices devs for the names names.
\* The steps every dispatch call takes after its callback.
Dispatch ==
    \/ \E t \in Threads, name \in RequestNames : SysfsRead(t, 1, name)
    \/ \E t \in Threads, name \in RequestNames, page \in Payloads :
         SysfsWrite(t, 1, name, page)
    \/ \E t \in Threads : dm_attr_show_put(t)
    \/ \E t \in Threads : dm_attr_store_put(t)

DispatchHist ==
    \/ \E t \in Threads, name \in HistNames : SysfsRead(t, 1, name)
    \/ \E t \in Threads, name \in {"io_latency_reset"}, page \in Payloads :
         SysfsWrite(t, 1, name, page)
    \/ \E t \in Threads : dm_attr_show_put(t)
    \/ \E t \in Threads : dm_attr_store_put(t)

IdentityCallbacks ==
    \/ \E t \in Threads : dm_attr_name_show(t)
    \/ \E t \in Threads : dm_attr_uuid_show(t)
    \/ \E t \in Threads : dm_attr_suspended_show(t)

LatencyCallbacks ==
    \/ \E t \in Threads : dm_attr_io_latency_us_show(t)
    \/ \E t \in Threads : dm_attr_io_latency_ms_show(t)
    \/ \E t \in Threads : dm_attr_io_latency_s_show(t)
    \/ \E t \in Threads : dm_attr_io_latency_reset_store(t)

Increments ==
    \E stats \in StatsNames :
      \E i \in 0..(StatsNR(stats) - 1) : LatencyInc(1, stats, i)

Life ==
    \/ Suspend(1)
    \/ Resume(1)
    \/ HashRemove(1)
    \/ DestroyBegin(1)
    \/ DestroyEnd(1)

\* The dispatcher over the whole table while the device lives and dies.
Next == Dispatch \/ IdentityCallbacks \/ LatencyCallbacks \/ Life

Spec == Init /\ [][Next]_vars

\* The steps by which a dispatch call of caller t goes on after its start.
Continue(t) ==
    \/ dm_attr_name_show(t)
    \/ dm_attr_uuid_show(t)
    \/ dm_attr_suspended_show(t)
    \/ dm_attr_io_latency_us_show(t)
    \/ dm_attr_io_latency_ms_show(t)
    \/ dm_attr_io_latency_s_show(t)
    \/ dm_attr_io_latency_reset_store(t)
    \/ dm_attr_show_put(t)
    \/ dm_attr_store_put(t)

\* The same under a scheduler that lets every caller run: a call that can go
\* on does go on.  The environment is under no obligation.
SpecFair ==
    Init /\ [][Next]_vars /\ \A t \in Threads : WF_vars(Continue(t))

\* The histogram attributes of a live device under load.
NextHist == DispatchHist \/ LatencyCallbacks \/ Increments

SpecHist == InitFresh /\ [][NextHist]_vars

\* Resets of several devices side by side, each suspended and resumed at
\* will.
NextTwo ==
    \/ \E t \in Threads, md \in MDs, page \in Payloads :
         SysfsWrite(t, md, "io_latency_reset", page)
    \/ \E t \in Threads : dm_attr_io_latency_reset_store(t)
    \/ \E t \in Threads : dm_attr_store_put(t)
    \/ \E md \in MDs : Suspend(md)
    \/ \E md \in MDs : Resume(md)

SpecTwo == Init /\ [][NextTwo]_vars

\* The histogram attributes where a sprintf of a latency reader may fail.
NextFmtFail ==
    \/ NextHist
    \/ \E t \in Threads : dm_attr_io_latency_us_show_break(t)
    \/ \E t \in Threads : dm_attr_io_latency_ms_show_break(t)
    \/ \E t \in Threads : dm_attr_io_latency_s_show_break(t)

SpecFmtFail == InitFresh /\ [][NextFmtFail]_vars

(* ------------------------------- claims ------------------------------- *)

\* The names of the built-in attributes, as the documentation lists them.
BuiltinNames ==
    {"name", "uuid", "suspended", "io_latency_us", "io_latency_ms",
     "io_latency_s", "io_latency_reset"}

ReadableNames == BuiltinNames \ {"io_latency_reset"}

Returned(t) == th[t].pc = "done"

\* The callers that hold a reference on device md.
Holding(md) == {t \in Threads : InCall(t) /\ th[t].md = md}

\* C1: a dispatch call that has returned has released as often as it has
\* resolved, whether it succeeded, was rejected or its callback failed, and
\* the references a device counts are those of the calls still under way.
C1_RefsPaired ==
    /\ \A t \in Threads : Returned(t) => gh[t].nput = gh[t].nget
    /\ \A md \in MDs : dev[md].holders = Cardinality(Holding(md))

\* A read of the name has failed in its callback and has returned, while
\* another call holds its reference.
C1_Witness ==
    \E t, u \in Threads :
      /\ Returned(t) /\ th[t].name = "name" /\ th[t].ret = -EIO
      /\ gh[t].nget = 1 /\ gh[t].nput = 1
      /\ InCall(u) /\ dev[th[u].md].holders = 1

\* C2: a dispatch whose resolution of the handle failed returns -EINVAL,
\* has invoked no callback and has released no reference.
C2_InvalidHandle ==
    \A t \in Threads :
      gh[t].resolve = "failed" =>
        /\ Returned(t)
        /\ th[t].ret = -EINVAL
        /\ gh[t].ncb = 0
        /\ gh[t].nget = 0
        /\ gh[t].nput = 0
        /\ th[t].page = <<>>

\* A read and a write have met a destroyed device.
C2_Witness ==
    \E t, u \in Threads :
      /\ gh[t].resolve = "failed" /\ th[t].op = "show"
      /\ gh[u].resolve = "failed" /\ th[u].op = "store"
      /\ dev[th[t].kobj].state = "freed"

\* The built-in attributes that have no callback for the operation.
Lacks(op, name) ==
    \/ op = "show" /\ name = "io_latency_reset"
    \/ op = "store" /\ name \in ReadableNames

C3_Refused ==
    /\ \A t \in Threads :
         Returned(t) /\ Lacks(th[t].op, th[t].name) =>
           /\ th[t].ret = -EIO
           /\ gh[t].ncb = 0
           /\ gh[t].nget = 0
    /\ \A a \in 1..Len(dm_attrs) :
         /\ dm_attrs[a].name \in BuiltinNames
         /\ (dm_attrs[a].show = NULL) = Lacks("show", dm_attrs[a].name)
         /\ (dm_attrs[a].store = NULL) = Lacks("store", dm_attrs[a].name)
    /\ BuiltinNames = {dm_attrs[a].name : a \in 1..Len(dm_attrs)}

\* The step in which caller t starts a dispatch call.
Starts(t) ==
    /\ calls' = calls + 1
    /\ \A u \in Threads \ {t} : th'[u] = th[u]

\* C3: a read of the write-only attribute and a write of any read-only
\* attribute fail with -EIO; no callback runs and nothing of a device, its
\* histograms included, changes.
C3_Unsupported ==
    /\ []C3_Refused
    /\ [][\A t \in Threads :
            Starts(t) /\ Lacks(th'[t].op, th'[t].name)
            => Returned(t)' /\ dev' = dev]_vars

\* A read of io_latency_reset and a write of io_latency_us were refused on a
\* device whose histograms hold counts.
C3_Witness ==
    \E t, u \in Threads :
      /\ Returned(t) /\ th[t].op = "show" /\ th[t].name = "io_latency_reset"
      /\ Returned(u) /\ th[u].op = "store" /\ th[u].name = "io_latency_us"
      /\ th[t].ret = -EIO /\ th[u].ret = -EIO
      /\ dev[th[u].kobj].latency_stats_us[0] > 0

\* C4: a read or a write of a name the table does not hold fails with
\* -ENOENT in every state of the device, and no callback runs.
C4_NotFound ==
    \A t \in Threads :
      Returned(t) /\ th[t].name \notin BuiltinNames =>
        /\ th[t].ret = -ENOENT
        /\ gh[t].ncb = 0
        /\ gh[t].nget = 0
        /\ gh[t].resolve = "none"

\* An absent name was read on a live device and written on a destroyed one.
C4_Witness ==
    \E t, u \in Threads :
      /\ Returned(t) /\ th[t].name \notin BuiltinNames /\ th[t].op = "show"
      /\ Returned(u) /\ th[u].name \notin BuiltinNames /\ th[u].op = "store"
      /\ th[t].ret = -ENOENT /\ th[u].ret = -ENOENT
      /\ dev[th[u].kobj].state = "freed"

(* -------------------- reading what a reader wrote ---------------------- *)

EndsInNewline(buf) == Len(buf) > 0 /\ buf[Len(buf)] = "\n"

\* The first place of character c in line, 0 when it has none.
First(line, c) ==
    LET at == {p \in 1..Len(line) : line[p] = c} IN
    IF at = {} THEN 0 ELSE CHOOSE p \in at : \A q \in at : p <= q

\* The complete lines of buf, without their newlines.
RECURSIVE Lines(_)
Lines(buf) ==
    LET nl == First(buf, "\n") IN
    IF nl = 0 THEN <<>>
    ELSE <<SubSeq(buf, 1, nl - 1)>> \o Lines(SubSeq(buf, nl + 1, Len(buf)))

IsNumber(str) ==
    Len(str) > 0 /\ \A p \in 1..Len(str) : \E d \in 1..10 : DigitChar[d] = str[p]

RECURSIVE Value(_)
Value(str) ==
    IF Len(str) = 0 THEN 0
    ELSE 10 * Value(SubSeq(str, 1, Len(str) - 1))
           + (CHOOSE d \in 0..9 : DigitChar[d + 1] = str[Len(str)])

\* A line "<lo>-<hi>(<unit>):<count>" taken apart.
ParseLine(line) ==
    LET dash  == First(line, "-")
        open  == First(line, "(")
        close == First(line, ")")
        colon == First(line, ":")
        lo    == SubSeq(line, 1, dash - 1)
        hi    == SubSeq(line, dash + 1, open - 1)
        count == SubSeq(line, colon + 1, Len(line))
    IN  IF /\ 1 < dash /\ dash < open /\ open < close /\ colon = close + 1
           /\ IsNumber(lo) /\ IsNumber(hi) /\ IsNumber(count)
        THEN [ok |-> TRUE, lo |-> Value(lo), hi |-> Value(hi),
              unit |-> SubSeq(line, open + 1, close - 1),
              count |-> Value(count)]
        ELSE [ok |-> FALSE, lo |-> -1, hi |-> -1, unit |-> <<>>, count |-> -1]

\* The scale each latency attribute reports, as documented.
Scale(name) ==
    CASE name = "io_latency_us" ->
           [stats |-> "latency_stats_us", unit |-> <<"u", "s">>,
            NR |-> DM_LATENCY_STATS_US_NR, G |-> DM_LATENCY_STATS_US_GRAINSIZE]
      [] name = "io_latency_ms" ->
           [stats |-> "latency_stats_ms", unit |-> <<"m", "s">>,
            NR |-> DM_LATENCY_STATS_MS_NR, G |-> DM_LATENCY_STATS_MS_GRAINSIZE]
      [] name = "io_latency_s" ->
           [stats |-> "latency_stats_s", unit |-> <<"s">>,
            NR |-> DM_LATENCY_STATS_S_NR, G |-> DM_LATENCY_STATS_S_GRAINSIZE]

\* The callback of caller t has returned (the call itself may not have).
Finished(t) == th[t].pc \in {"put", "done"} /\ gh[t].resolve = "ok"

LatencyRead(t) ==
    Finished(t) /\ th[t].op = "show" /\ th[t].name \in HistNames

ResetDone(t) ==
    Finished(t) /\ th[t].op = "store" /\ th[t].name = "io_latency_reset"

RECURSIVE ParseLines(_)
ParseLines(lines) ==
    IF lines = <<>> THEN <<>>
    ELSE <<ParseLine(Head(lines))>> \o ParseLines(Tail(lines))

\* The lines caller t has been given, taken apart.
Report(t) == ParseLines(Lines(th[t].page))

\* The bucket line k of caller t reports, as it is now.
Bucket(t, k) == dev[th[t].kobj][Scale(th[t].name).stats][k - 1]

\* No increment and no reset has touched the device since t's call began.
Undisturbed(t) == ~gh[t].incd /\ ~gh[t].resetd

AllZero(d) ==
    /\ \A i \in DOMAIN d.latency_stats_us : d.latency_stats_us[i] = 0
    /\ \A i \in DOMAIN d.latency_stats_ms : d.latency_stats_ms[i] = 0
    /\ \A i \in DOMAIN d.latency_stats_s : d.latency_stats_s[i] = 0

\* The page of caller t holds one well-formed line per bucket of its scale.
CompleteReport(t) ==
    LET sc == Scale(th[t].name)
        r  == Report(t)
    IN  /\ th[t].ret = Len(th[t].page)
        /\ EndsInNewline(th[t].page)
        /\ Len(r) = sc.NR
        /\ \A k \in 1..sc.NR : r[k].ok

C6_NothingOmitted ==
    \A t \in Threads :
      Finished(t) /\ th[t].op = "show" /\ th[t].ret >= 0 =>
        /\ EndsInNewline(th[t].page)
        /\ th[t].ret = Len(th[t].page)
        /\ th[t].name \in HistNames => CompleteReport(t)

C7_WitnessRead ==
    \E t \in Threads :
      /\ LatencyRead(t) /\ Returned(t)
      /\ gh[t].startClean /\ ~gh[t].incd
      /\ incs > 0

C9_ResetConsumesAll ==
    \A t \in Threads :
      ResetDone(t) =>
        /\ th[t].ret = th[t].len
        /\ th[t].pc = "put" => th[t].len = Len(th[t].page)
        /\ ~gh[t].incd => AllZero(dev[th[t].kobj])

\* A reset with an empty payload has returned 0 and one with a payload of
\* two characters is about to return 2, after increments.
C9_Witness ==
    \E t, u \in Threads :
      /\ ResetDone(t) /\ Returned(t) /\ th[t].len = 0 /\ th[t].ret = 0
      /\ ResetDone(u) /\ th[u].pc = "put" /\ th[u].page = <<"1", "\n">>
      /\ th[u].ret = 2
      /\ incs > 0 /\ ~gh[u].incd

\* C10: a latency reader that meets resets but no increment reports, for
\* every bucket, the value the bucket had when the read began or zero.
C10_NoTornCount ==
    \A t \in Threads :
      /\ th[t].op = "show" /\ th[t].name \in HistNames
      /\ gh[t].resolve = "ok" /\ ~gh[t].incd
      => LET r == Report(t) IN
         \A k \in 1..Len(r) :
           /\ r[k].ok
           /\ r[k].count \in {gh[t].snap[Scale(th[t].name).stats][k - 1], 0}

\* One read reports the old count of one bucket and the zero a concurrent
\* reset wrote to another bucket that held a count.
C10_Witness ==
    \E t \in Threads :
      /\ LatencyRead(t) /\ gh[t].resetd /\ ~gh[t].incd
      /\ \E j, k \in 1..Len(Report(t)) :
           /\ Report(t)[j].count > 0
           /\ Report(t)[k].count = 0
           /\ gh[t].snap[Scale(th[t].name).stats][k - 1] > 0

\* The mode of the descriptor grants reading / writing.
Readable(d) == S_IRUGO \subseteq d.mode

Writable(d) == S_IWUSR \subseteq d.mode

\* The attribute table of device md is visible from dm_sysfs_init until the
\* device is gone.
Registered(md) == dev[md].state # "freed"

\* C11: every descriptor of the attribute table (of every registered device)
\* that is marked readable has its show callback set, and every one that is
\* marked writable has its store callback set; this holds for all seven
\* built-in attributes, those declared with DM_ATTR_RW included.
C11_ModeHasCallback ==
    \A md \in MDs :
      Registered(md) =>
        /\ {dm_attrs[a].name : a \in 1..Len(dm_attrs)} = BuiltinNames
        /\ \A a \in 1..Len(dm_attrs) :
             /\ Readable(dm_attrs[a]) => dm_attrs[a].show # NULL
             /\ Writable(dm_attrs[a]) => dm_attrs[a].store # NULL

\* What a caller can observe of a device: its name, uuid, suspended flag and
\* the buckets of its three histograms.
ObjState(d) ==
    [name |-> d.name, uuid |-> d.uuid, suspended |-> d.suspended,
     latency_stats_us |-> d.latency_stats_us,
     latency_stats_ms |-> d.latency_stats_ms,
     latency_stats_s |-> d.latency_stats_s]

\* The step is one of the dispatch call of caller t.
Moves(t) == th'[t] # th[t] \/ Starts(t)

SameObjects == \A md \in MDs : ObjState(dev'[md]) = ObjState(dev[md])

\* A call that returned an error was refused before its callback or was a
\* read.
C12_ErrorCalls ==
    \A t \in Threads :
      Returned(t) /\ th[t].ret < 0 =>
        \/ gh[t].ncb = 0 /\ gh[t].nget = 0
        \/ th[t].op = "show" /\ th[t].ret = -EIO

\* C12: a read or write dispatch that returns an error (-ENOENT, -EIO for a
\* missing callback, -EINVAL, or -EIO from a callback) leaves the name, the
\* uuid, the suspended flag and every bucket of the three histograms of every
\* device as they were: an erroring call is one refused at its start or a
\* read, and no step of either changes what can be observed of a device.
C12_ErrorsChangeNothing ==
    /\ []C12_ErrorCalls
    /\ [][\A t \in Threads :
            /\ Moves(t)
            /\ \/ th'[t].op = "show"
               \/ Returned(t)' /\ th'[t].ret < 0
            => SameObjects]_vars

\* A read of the name has failed in its callback on a suspended device with
\* counts in its histograms, and a write has met the device destroyed.
C12_Witness ==
    \E t, u \in Threads :
      /\ Returned(t) /\ th[t].name = "name" /\ th[t].ret = -EIO
      /\ gh[t].ncb = 1
      /\ dev[th[t].kobj].suspended
      /\ dev[th[t].kobj].latency_stats_ms[0] > 0
      /\ Returned(u) /\ th[u].op = "store" /\ th[u].ret = -EINVAL

\* C13: under fair scheduling every dispatch call that has started returns
\* (a result or one of the errors), every reference it has taken is
\* released, and a call under way can always take its next step whatever
\* the other callers do: it waits on no other dispatch.
C13_CallsReturn ==
    /\ \A t \in Threads : InCall(t) ~> Returned(t)
    /\ \A t \in Threads :
         (gh[t].nget > gh[t].nput) ~> (Returned(t) /\ gh[t].nget = gh[t].nput)
    /\ [](\A t \in Threads : InCall(t) => ENABLED Continue(t))

\* Two resets were under way at once, each holding a reference.
C13_Witness ==
    \E t, u \in Threads :
      /\ t # u
      /\ InCall(t) /\ th[t].name = "io_latency_reset" /\ th[t].pc = "put"
      /\ InCall(u) /\ th[u].name = "io_latency_reset" /\ th[u].pc = "put"
      /\ dev[th[t].md].holders = 2

\* C14: no show or store callback runs on a destroyed device.  From the
\* successful resolution to the matching release the device of a dispatch
\* call is the one it asked for and is not gone, and the destruction of a
\* device ends only in a state in which no dispatch call holds it.
C14_NoCallbackOnDestroyed ==
    /\ [](\A t \in Threads :
            InCall(t) =>
              /\ th[t].md = th[t].kobj
              /\ gh[t].resolve = "ok"
              /\ dev[th[t].md].state # "freed"
              /\ dev[th[t].md].holders >= 1)
    /\ [][\A md \in MDs :
            dev[md].state # "freed" /\ dev'[md].state = "freed"
            => Holding(md) = {} /\ dev[md].holders = 0]_vars

\* The destruction of a device has begun while a read runs its callback on
\* it and another call has already been turned away.
C14_Witness ==
    \E t, u \in Threads :
      /\ InCall(t) /\ th[t].pc = "callback" /\ th[t].op = "show"
      /\ dev[th[t].md].state = "freeing"
      /\ gh[u].resolve = "failed" /\ th[u].kobj = th[t].md

\* Resolution of the device would fail: its destruction has begun.
Destroyed(md) == dev[md].state \in {"freeing", "freed"}

\* C15: the dispatcher looks for the callback before it resolves the device.
\* A read of the write-only attribute or a write of a read-only attribute
\* that starts on a destroyed device returns -EIO, not -EINVAL, in that very
\* step, without having tried the resolution and without a reference.
C15_CallbackCheckedFirst ==
    [][\A t \in Threads :
         /\ Starts(t)
         /\ Lacks(th'[t].op, th'[t].name)
         /\ Destroyed(th'[t].kobj)
         => /\ Returned(t)'
            /\ th'[t].ret = -EIO
            /\ gh'[t].resolve = "none"
            /\ gh'[t].nget = 0
            /\ dev' = dev]_vars

\* The first caller has met the device destroyed; the second, who starts
\* after the first, has then written a read-only attribute and was refused.
C15_Witness ==
    /\ gh[1].resolve = "failed" /\ th[1].ret = -EINVAL
    /\ Returned(2) /\ th[2].op = "store" /\ th[2].name = "suspended"
    /\ th[2].ret = -EIO /\ gh[2].resolve = "none"
    /\ Destroyed(th[2].kobj)

\* The callback of the call of caller t has returned and the dispatcher has
\* not yet: th[t].ret is what the callback returned.
CallbackReturned(t) == th[t].pc = "put"

\* What the callbacks return: the length of the reply of a read, the length
\* of the payload of a write, or the -EIO of a failed copy of name and uuid.
C16_CallbackValues ==
    \A t \in Threads :
      CallbackReturned(t) \/ (Returned(t) /\ gh[t].ncb = 1) =>
        \/ th[t].op = "show" /\ th[t].ret = Len(th[t].page)
        \/ th[t].op = "store" /\ th[t].ret = th[t].len
        \/ /\ th[t].op = "show"
           /\ th[t].name \in {"name", "uuid"}
           /\ th[t].ret = -EIO
           /\ th[t].page = <<>>

\* C16: whenever the dispatcher has called a show or store callback, what it
\* returns to the caller is what the callback returned: the length produced
\* by a read, the length consumed by a write, or the -EIO of the failed
\* retrieval of name or uuid; the dispatcher replaces none of them.
C16_ReturnPropagated ==
    /\ []C16_CallbackValues
    /\ [][\A t \in Threads :
            CallbackReturned(t) /\ Returned(t)'
            => /\ th'[t].ret = th[t].ret
               /\ th'[t].op = "show" => th'[t].page = th[t].page]_vars

\* A read of the uuid has returned the -EIO of its callback, and a reset has
\* returned the length of its payload.
C16_Witness ==
    \E t, u \in Threads :
      /\ Returned(t) /\ th[t].name = "uuid" /\ gh[t].ncb = 1
      /\ th[t].ret = -EIO
      /\ Returned(u) /\ th[u].name = "io_latency_reset" /\ gh[u].ncb = 1
      /\ th[u].ret = 2

\* The step is the atomic_set of bucket i of array stats of device md by a
\* reset under way.
ResetStepOn(md, stats, i) ==
    \E t \in Threads :
      /\ InStore(t, "dm_attr_io_latency_reset_store")
      /\ th'[t] # th[t]
      /\ th[t].md = md
      /\ ResetStats(th[t].loop) = stats
      /\ th[t].i = i

\* C17: in every step every bucket of every histogram keeps its value, or
\* is counted up by an increment from outside (no caller moves), or becomes
\* zero by the atomic_set of a write of io_latency_reset on that bucket.  No
\* step of a dispatch call sets a bucket to a value other than zero.
C17_BucketSteps ==
    [][\A md \in MDs : \A stats \in StatsNames :
         \A i \in 0..(StatsNR(stats) - 1) :
           LET old == dev[md][stats][i]
               new == dev'[md][stats][i]
           IN  \/ new = old
               \/ new > old /\ th' = th
               \/ new = 0 /\ ResetStepOn(md, stats, i)]_vars

\* A reset has zeroed a bucket that held a count, and another bucket has
\* been counted up since.
C17_Witness ==
    \E t \in Threads :
      /\ ResetDone(t) /\ Returned(t)
      /\ gh[t].snap.latency_stats_us[1] = 1
      /\ dev[th[t].kobj].latency_stats_us[1] = 0
      /\ dev[th[t].kobj].latency_stats_s[0] = 1

\* C18: increments from outside that interleave with a write of
\* io_latency_reset act on each bucket as if one at a time.  Once the reset
\* has returned (and as long as no other reset has written since it began),
\* every bucket holds the number of increments applied to it after this
\* reset zeroed it: none of those is lost, none applied before survives.
C18_Linearizable ==
    \A t \in Threads :
      ResetDone(t) /\ ~gh[t].resetd =>
        \A stats \in StatsNames : \A i \in 0..(StatsNR(stats) - 1) :
          /\ gh[t].since[stats][i] >= 0
          /\ dev[th[t].kobj][stats][i] = gh[t].since[stats][i]

\* A reset has returned that two increments met on its way: the one that
\* came before the zeroing of its bucket is gone, the one that came after
\* the zeroing of the first bucket is counted.
C18_Witness ==
    \E t \in Threads :
      /\ ResetDone(t) /\ Returned(t) /\ ~gh[t].resetd
      /\ AllZero(gh[t].snap)
      /\ gh[t].incd
      /\ incs = 2
      /\ gh[t].since.latency_stats_us[0] = 1
      /\ dev[th[t].kobj].latency_stats_us[0] = 1
      /\ \A stats \in StatsNames : \A i \in 0..(StatsNR(stats) - 1) :
           \/ (stats = "latency_stats_us" /\ i = 0)
           \/ dev[th[t].kobj][stats][i] = 0

\* Since the call of caller t began, the device it is on has met no
\* increment, no reset by another call and no change of its life.
Quiet(t) == ~gh[t].incd /\ ~gh[t].resetd /\ ~gh[t].lifed

\* Caller t has read attribute name of device md and the callback has run.
HasRead(t, md, name) ==
    /\ Returned(t) /\ th[t].op = "show" /\ gh[t].ncb = 1
    /\ th[t].kobj = md /\ th[t].name = name

\* Two reads of one attribute of one device with nothing in between reply
\* the same.
C19_SameReply ==
    \A t, u \in Threads : \A md \in MDs : \A name \in ReadableNames :
      /\ t # u
      /\ HasRead(t, md, name) /\ HasRead(u, md, name)
      /\ Quiet(t) /\ Quiet(u)
      => th[t].page = th[u].page /\ th[t].ret = th[u].ret

ResetMoves(t) ==
    /\ Moves(t)
    /\ th'[t].op = "store"
    /\ th'[t].name = "io_latency_reset"

\* C20: a write of io_latency_reset on a device changes nothing but the
\* buckets of the histograms of that device (and, while it runs, the count
\* of its holders): the name, the uuid and the suspended flag of the device
\* stay, and every other device stays as it is in all it holds.
C20_ResetTouchesOnlyItsDevice ==
    [][\A t \in Threads :
         ResetMoves(t) =>
           LET A == th'[t].kobj IN
           /\ dev'[A].name = dev[A].name
           /\ dev'[A].uuid = dev[A].uuid
           /\ dev'[A].suspended = dev[A].suspended
           /\ dev'[A].state = dev[A].state
           /\ \A B \in MDs \ {A} : dev'[B] = dev[B]]_vars

\* A reset of the second device has returned and has left it all zero and
\* suspended, while the first device still holds the counts it had.
C20_Witness ==
    \E t \in Threads :
      /\ ResetDone(t) /\ Returned(t) /\ th[t].kobj = 2
      /\ ~AllZero(gh[t].snap)
      /\ AllZero(dev[2])
      /\ dev[2].suspended
      /\ dev[2].name = <<"d", "m", "2">>
      /\ Hist(dev[1]) = Hist(LoadedDevice)

====
